---- MODULE Spec2Model ----
(***************************************************************************)
(* Grid-maze engine: construction (createMaze), generation by randomized   *)
(* depth-first backtracking (generateMaze), breadth-first solving          *)
(* (solveMaze) and the hexadecimal wall codec (serializeMaze /             *)
(* deserializeMaze).                                                       *)
(*                                                                         *)
(* Coordinates are 0-based as in the source; TLA+ sequences are 1-based,   *)
(* so the cell the source addresses as maze.cells[y][x] is                 *)
(* maze.cells[y + 1][x + 1] here (operator At).                            *)
(***************************************************************************)
EXTENDS Integers, Sequences, FiniteSets, TLC

VARIABLES
    pc,          \* position of the running call
    width,       \* argument: width
    height,      \* argument: height
    difficulty,  \* argument: difficulty (generateMaze)
    maze,        \* the Maze being built / passed in
    stack,       \* generateMaze: stack of cells (held by coordinate)
    steps,       \* generateMaze: steps
    start,       \* solveMaze: start
    end,         \* solveMaze: end
    queue,       \* solveMaze: queue of {point, path}
    visited,     \* solveMaze: visited keys
    iterations,  \* solveMaze: iterations
    result,      \* solveMaze: returned path
    data,        \* serializeMaze result / deserializeMaze argument
    out,         \* deserializeMaze result
    entrance,    \* getEntranceCoordinates: position; getExitCoordinates: entrance
    exit,        \* getExitCoordinates: exit
    twin,        \* a second call of generateMaze, run side by side
    redone,      \* serializeMaze applied to the result of deserializeMaze
    page,        \* +page.svelte: the component's state
    stored       \* +page.svelte: the record under STORAGE_KEY in localStorage

vars == <<pc, width, height, difficulty, maze, stack, steps,
          start, end, queue, visited, iterations, result, data, out,
          entrance, exit, twin, redone, page, stored>>

genVars   == <<difficulty, stack, steps>>
solveVars == <<start, end, queue, visited, iterations, result>>
codecVars == <<data, out, redone>>
pageVars == <<page, stored>>
resolveVars == <<entrance, exit>>

(***************************************************************************)
(* Bounds of the model.                                                    *)
(***************************************************************************)
GenMaxW == 3         \* generateMaze: widths 1..GenMaxW
GenMaxH == 3         \* generateMaze: heights 1..GenMaxH
MaxDifficulty == 2   \* generateMaze: difficulty 1..MaxDifficulty
SolveMaxCells == 6   \* solveMaze: grids of at most this many cells
SolveMaxFree == 4    \* solveMaze: up to this many cells, the two flags of an
                     \* edge are set independently of each other
CodecMaxCells == 2   \* codec: every grid of at most this many cells
CodecMaxW == 3       \* codec: patterned grids and texts, widths 1..CodecMaxW
CodecMaxH == 2       \* codec: patterned grids and texts, heights 1..CodecMaxH
MaxTextLen == 2      \* deserializeMaze: texts of 0..MaxTextLen characters
MaxBad == 1          \* invalid dimensions: widths and heights -MaxBad..0
PageMinSize == 2     \* page: the width and height inputs are edited to PageMinSize..PageMaxSize
PageMaxSize == 3
PageMaxDifficulty == 1 \* page: the difficulty input is edited to 1..PageMaxDifficulty
ReverseMaxCells == 3 \* reverse round trip: texts of at most this many characters
RandomGrain == 12    \* Math.random() takes the values 0/n .. (n-1)/n, n = RandomGrain
ResolveMaxW == 4     \* position resolver: widths 1..ResolveMaxW
ResolveMaxH == 4     \* position resolver: heights 1..ResolveMaxH

(***************************************************************************)
(* Data model.                                                             *)
(***************************************************************************)
NoMaze == [width |-> 0, height |-> 0, cells |-> <<>>]
NoPoint == [x |-> -1, y |-> -1]
\* no page state is modelled / localStorage.getItem(STORAGE_KEY) is null
NoPage == [width |-> 0, height |-> 0, difficulty |-> 0, maze |-> NoMaze,
           solutionPath |-> <<>>, toggledWalls |-> {}, isGenerating |-> FALSE]
NoRecord == [width |-> 0, height |-> 0, difficulty |-> 0, mazeData |-> <<>>,
             toggledWalls |-> {}, present |-> FALSE]

NoTwin == [difficulty |-> 0, maze |-> NoMaze, stack |-> <<>>, steps |-> 0]

Point(px, py) == [x |-> px, y |-> py]

At(m, px, py) == m.cells[py + 1][px + 1]

InBounds(m, p) == p.x >= 0 /\ p.x < m.width /\ p.y >= 0 /\ p.y < m.height

Points(m) == {Point(px, py) : px \in 0..(m.width - 1), py \in 0..(m.height - 1)}

\* In-place update of one cell of the maze.
SetCell(m, px, py, c) ==
    [m EXCEPT !.cells[py + 1][px + 1] = c]

(***************************************************************************)
(* createCell / createMaze                                                 *)
(***************************************************************************)
createCell(px, py) ==
    [x |-> px, y |-> py,
     walls |-> [top |-> TRUE, right |-> TRUE, bottom |-> TRUE, left |-> TRUE],
     visited |-> FALSE]

\* Faulty variant of createMaze: the cell is created with its coordinates
\* exchanged.
createMazeTransposed(w, h) ==
    [width |-> w, height |-> h,
     cells |-> [r \in 1..h |-> [c \in 1..w |-> createCell(r - 1, c - 1)]]]

createMaze(w, h) ==
    [width |-> w, height |-> h,
     cells |-> [r \in 1..h |-> [c \in 1..w |-> createCell(c - 1, r - 1)]]]

(***************************************************************************)
(* getNeighbors: unvisited neighbours in the order top, right, bottom,     *)
(* left.                                                                   *)
(***************************************************************************)
\* Faulty variant of getNeighbors: the bottom neighbour is never offered.
getNeighborsNoBottom(cell, m) ==
    LET px == cell.x
        py == cell.y
        t == IF py > 0 /\ ~At(m, px, py - 1).visited
             THEN <<At(m, px, py - 1)>> ELSE <<>>
        r == IF px < m.width - 1 /\ ~At(m, px + 1, py).visited
             THEN <<At(m, px + 1, py)>> ELSE <<>>
        l == IF px > 0 /\ ~At(m, px - 1, py).visited
             THEN <<At(m, px - 1, py)>> ELSE <<>>
    IN  t \o r \o l

getNeighbors(cell, m) ==
    LET px == cell.x
        py == cell.y
        t == IF py > 0 /\ ~At(m, px, py - 1).visited
             THEN <<At(m, px, py - 1)>> ELSE <<>>
        r == IF px < m.width - 1 /\ ~At(m, px + 1, py).visited
             THEN <<At(m, px + 1, py)>> ELSE <<>>
        b == IF py < m.height - 1 /\ ~At(m, px, py + 1).visited
             THEN <<At(m, px, py + 1)>> ELSE <<>>
        l == IF px > 0 /\ ~At(m, px - 1, py).visited
             THEN <<At(m, px - 1, py)>> ELSE <<>>
    IN  t \o r \o b \o l

(***************************************************************************)
(* removeWalls(current, next): clears the two flags of the shared edge.    *)
(* The cells are mutated in place, so the result is the updated maze.      *)
(***************************************************************************)
\* Faulty variant of removeWalls: only the current cell's flag is cleared.
removeWallsOneSided(m, current, next) ==
    LET dx == current.x - next.x
        dy == current.y - next.y
        cw1 == IF dx = 1 THEN [current.walls EXCEPT !.left = FALSE]
               ELSE IF dx = -1 THEN [current.walls EXCEPT !.right = FALSE]
               ELSE current.walls
        cw2 == IF dy = 1 THEN [cw1 EXCEPT !.top = FALSE]
               ELSE IF dy = -1 THEN [cw1 EXCEPT !.bottom = FALSE]
               ELSE cw1
    IN  SetCell(m, current.x, current.y, [current EXCEPT !.walls = cw2])

\* Faulty variant of removeWalls: each cell clears the flag on the side away
\* from the other cell.
removeWallsFarSide(m, current, next) ==
    LET dx == current.x - next.x
        dy == current.y - next.y
        cw1 == IF dx = 1 THEN [current.walls EXCEPT !.right = FALSE]
               ELSE IF dx = -1 THEN [current.walls EXCEPT !.left = FALSE]
               ELSE current.walls
        nw1 == IF dx = 1 THEN [next.walls EXCEPT !.left = FALSE]
               ELSE IF dx = -1 THEN [next.walls EXCEPT !.right = FALSE]
               ELSE next.walls
        cw2 == IF dy = 1 THEN [cw1 EXCEPT !.bottom = FALSE]
               ELSE IF dy = -1 THEN [cw1 EXCEPT !.top = FALSE]
               ELSE cw1
        nw2 == IF dy = 1 THEN [nw1 EXCEPT !.top = FALSE]
               ELSE IF dy = -1 THEN [nw1 EXCEPT !.bottom = FALSE]
               ELSE nw1
        m1 == SetCell(m, current.x, current.y, [current EXCEPT !.walls = cw2])
    IN  SetCell(m1, next.x, next.y, [next EXCEPT !.walls = nw2])

\* Faulty variant of removeWalls: the vertical case (dy) is missing.
removeWallsHorizontalOnly(m, current, next) ==
    LET dx == current.x - next.x
        cw1 == IF dx = 1 THEN [current.walls EXCEPT !.left = FALSE]
               ELSE IF dx = -1 THEN [current.walls EXCEPT !.right = FALSE]
               ELSE current.walls
        nw1 == IF dx = 1 THEN [next.walls EXCEPT !.right = FALSE]
               ELSE IF dx = -1 THEN [next.walls EXCEPT !.left = FALSE]
               ELSE next.walls
        m1 == SetCell(m, current.x, current.y, [current EXCEPT !.walls = cw1])
    IN  SetCell(m1, next.x, next.y, [next EXCEPT !.walls = nw1])

removeWalls(m, current, next) ==
    LET dx == current.x - next.x
        dy == current.y - next.y
        cw1 == IF dx = 1 THEN [current.walls EXCEPT !.left = FALSE]
               ELSE IF dx = -1 THEN [current.walls EXCEPT !.right = FALSE]
               ELSE current.walls
        nw1 == IF dx = 1 THEN [next.walls EXCEPT !.right = FALSE]
               ELSE IF dx = -1 THEN [next.walls EXCEPT !.left = FALSE]
               ELSE next.walls
        cw2 == IF dy = 1 THEN [cw1 EXCEPT !.top = FALSE]
               ELSE IF dy = -1 THEN [cw1 EXCEPT !.bottom = FALSE]
               ELSE cw1
        nw2 == IF dy = 1 THEN [nw1 EXCEPT !.bottom = FALSE]
               ELSE IF dy = -1 THEN [nw1 EXCEPT !.top = FALSE]
               ELSE nw1
        m1 == SetCell(m, current.x, current.y, [current EXCEPT !.walls = cw2])
    IN  SetCell(m1, next.x, next.y, [next EXCEPT !.walls = nw2])

\* next.visited = true
markVisited(m, px, py) ==
    SetCell(m, px, py, [At(m, px, py) EXCEPT !.visited = TRUE])

(***************************************************************************)
(* generateMaze(width, height, difficulty)                                 *)
(***************************************************************************)
InitGenerate ==
    /\ pc = "generate"
    /\ width \in 1..GenMaxW
    /\ height \in 1..GenMaxH
    /\ difficulty \in 1..MaxDifficulty
    /\ maze = NoMaze
    /\ stack = <<>>
    /\ steps = 0
    /\ start = NoPoint
    /\ end = NoPoint
    /\ queue = <<>>
    /\ visited = {}
    /\ iterations = 0
    /\ redone = <<>>
    /\ page = NoPage
    /\ stored = NoRecord
    /\ result = <<>>
    /\ data = <<>>
    /\ out = NoMaze
    /\ entrance = "none"
    /\ exit = "none"
    /\ twin = NoTwin

\* const maze = createMaze(width, height)
GenCreate ==
    /\ pc = "generate"
    /\ maze' = createMaze(width, height)
    /\ pc' = "created"
    /\ UNCHANGED <<pageVars, resolveVars, twin, width, height, genVars, solveVars, codecVars>>

\* startCell = maze.cells[0][0]; startCell.visited = true; stack.push(startCell)
\* (maze.cells[0][0] exists when the grid has a row and a column)
GenStart ==
    /\ pc = "created"
    /\ width >= 1 /\ height >= 1
    /\ maze' = markVisited(maze, 0, 0)
    /\ stack' = <<Point(0, 0)>>
    /\ steps' = 0
    /\ pc' = "loop"
    /\ UNCHANGED <<pageVars, resolveVars, twin, width, height, difficulty, solveVars, codecVars>>

\* loop body, neighbors.length > 0: one of the neighbours is drawn at random
GenAdvance ==
    /\ pc = "loop"
    /\ Len(stack) > 0
    /\ LET top == stack[Len(stack)]
           current == At(maze, top.x, top.y)
           neighbors == getNeighbors(current, maze)
       IN  /\ Len(neighbors) > 0
           /\ \E i \in 1..Len(neighbors) :
                LET next == neighbors[i]
                IN  /\ maze' = markVisited(removeWalls(maze, current, next),
                                           next.x, next.y)
                    /\ stack' = Append(stack, Point(next.x, next.y))
    /\ steps' = steps + 1
    /\ UNCHANGED <<pageVars, resolveVars, twin, pc, width, height, difficulty, solveVars, codecVars>>

\* loop body, no unvisited neighbour: stack.pop()
GenBacktrack ==
    /\ pc = "loop"
    /\ Len(stack) > 0
    /\ LET top == stack[Len(stack)]
           current == At(maze, top.x, top.y)
       IN  Len(getNeighbors(current, maze)) = 0
    /\ stack' = SubSeq(stack, 1, Len(stack) - 1)
    /\ steps' = steps + 1
    /\ UNCHANGED <<pageVars, resolveVars, twin, pc, width, height, difficulty, maze, solveVars, codecVars>>

\* stack.length = 0: return maze
GenReturn ==
    /\ pc = "loop"
    /\ Len(stack) = 0
    /\ pc' = "generated"
    /\ UNCHANGED <<pageVars, resolveVars, twin, width, height, maze, genVars, solveVars, codecVars>>

NextGenerate ==
    \/ GenCreate
    \/ GenStart
    \/ GenAdvance
    \/ GenBacktrack
    \/ GenReturn

SpecGenerate == InitGenerate /\ [][NextGenerate]_vars

(***************************************************************************)
(* solveMaze(maze, start, end)                                             *)
(***************************************************************************)
MaxIterationsFactor == 4

\* Faulty variant of directions: the wall checked for a horizontal move is
\* the one on the far side of the cell.
directionsWrongWall ==
    << [dx |-> 1,  dy |-> 0,  wallCheck |-> "left"],
       [dx |-> 0,  dy |-> 1,  wallCheck |-> "bottom"],
       [dx |-> -1, dy |-> 0,  wallCheck |-> "right"],
       [dx |-> 0,  dy |-> -1, wallCheck |-> "top"] >>

directions ==
    << [dx |-> 1,  dy |-> 0,  wallCheck |-> "right"],
       [dx |-> 0,  dy |-> 1,  wallCheck |-> "bottom"],
       [dx |-> -1, dy |-> 0,  wallCheck |-> "left"],
       [dx |-> 0,  dy |-> -1, wallCheck |-> "top"] >>

\* `${x},${y}`: the decimal renderings of the two coordinates joined by a
\* comma; two keys are equal exactly when both coordinates are, so the key
\* is held as the pair.
key(px, py) == <<px, py>>

\* Faulty variant of maxIterations: the cap is the width alone.
maxIterationsWidth(m) == m.width

maxIterations(m) == m.width * m.height * MaxIterationsFactor

\* Faulty variant of cellAfterVisit: the solver records the visit on the cell.
cellAfterVisitMarked(cell) == [cell EXCEPT !.visited = TRUE]

\* const cell = maze.cells[current.y][current.x] is a reference into the
\* caller's grid.  The loop body reads cell.walls and assigns to no property
\* of the cell: the cell after the pass is the cell before it.
cellAfterVisit(cell) == cell

\* Faulty variant of tryDirections: a visited neighbour is enqueued again.
RECURSIVE tryDirectionsRevisit(_, _, _, _, _)
tryDirectionsRevisit(m, current, path, i, vq) ==
    IF i > Len(directions) THEN vq
    ELSE
        LET d == directions[i]
            newX == current.x + d.dx
            newY == current.y + d.dy
            k == key(newX, newY)
            cell == At(m, current.x, current.y)
        IN  IF newX < 0 \/ newX >= m.width \/ newY < 0 \/ newY >= m.height
            THEN tryDirectionsRevisit(m, current, path, i + 1, vq)
            ELSE IF cell.walls[d.wallCheck]
            THEN tryDirectionsRevisit(m, current, path, i + 1, vq)
            ELSE tryDirectionsRevisit(m, current, path, i + 1,
                    [visited |-> vq.visited \cup {k},
                     queue |-> Append(vq.queue,
                                  [point |-> Point(newX, newY),
                                   path |-> Append(path, Point(newX, newY))])])

\* Faulty variant of tryDirections: the neighbour is enqueued but not added to
\* the visited set.
RECURSIVE tryDirectionsNoMark(_, _, _, _, _)
tryDirectionsNoMark(m, current, path, i, vq) ==
    IF i > Len(directions) THEN vq
    ELSE
        LET d == directions[i]
            newX == current.x + d.dx
            newY == current.y + d.dy
            k == key(newX, newY)
            cell == At(m, current.x, current.y)
        IN  IF newX < 0 \/ newX >= m.width \/ newY < 0 \/ newY >= m.height
            THEN tryDirectionsNoMark(m, current, path, i + 1, vq)
            ELSE IF cell.walls[d.wallCheck]
            THEN tryDirectionsNoMark(m, current, path, i + 1, vq)
            ELSE IF k \in vq.visited
            THEN tryDirectionsNoMark(m, current, path, i + 1, vq)
            ELSE tryDirectionsNoMark(m, current, path, i + 1,
                    [visited |-> vq.visited,
                     queue |-> Append(vq.queue,
                                  [point |-> Point(newX, newY),
                                   path |-> Append(path, Point(newX, newY))])])

\* One pass of the for-loop over directions, from direction i on; vq is the
\* pair of the visited set and the queue as updated so far.
RECURSIVE tryDirections(_, _, _, _, _)
tryDirections(m, current, path, i, vq) ==
    IF i > Len(directions) THEN vq
    ELSE
        LET d == directions[i]
            newX == current.x + d.dx
            newY == current.y + d.dy
            k == key(newX, newY)
            cell == At(m, current.x, current.y)
        IN  IF newX < 0 \/ newX >= m.width \/ newY < 0 \/ newY >= m.height
            THEN tryDirections(m, current, path, i + 1, vq)
            ELSE IF cell.walls[d.wallCheck]
            THEN tryDirections(m, current, path, i + 1, vq)
            ELSE IF k \in vq.visited
            THEN tryDirections(m, current, path, i + 1, vq)
            ELSE tryDirections(m, current, path, i + 1,
                    [visited |-> vq.visited \cup {k},
                     queue |-> Append(vq.queue,
                                  [point |-> Point(newX, newY),
                                   path |-> Append(path, Point(newX, newY))])])

\* The flags a grid holds on its internal edges: (x, y, side) for every
\* cell and every side that faces another cell of the grid.
InternalFlags(w, h) ==
    {f \in (0..(w - 1)) \X (0..(h - 1)) \X {"top", "right", "bottom", "left"} :
        \/ f[3] = "top" /\ f[2] > 0
        \/ f[3] = "right" /\ f[1] < w - 1
        \/ f[3] = "bottom" /\ f[2] < h - 1
        \/ f[3] = "left" /\ f[1] > 0}

\* The internal edges, each named by its left or upper cell and the side of
\* that cell it lies on.
InternalEdges(w, h) ==
    {f \in InternalFlags(w, h) : f[3] \in {"right", "bottom"}}

\* both flags of every edge of E
BothFlags(E) ==
    E \cup {<<f[1] + 1, f[2], "left">> : f \in {g \in E : g[3] = "right"}}
      \cup {<<f[1], f[2] + 1, "top">> : f \in {g \in E : g[3] = "bottom"}}

\* createMaze(w, h) followed by cells[y][x].walls[side] = false for every
\* (x, y, side) of S.
OpenFlags(w, h, S) ==
    [width |-> w, height |-> h,
     cells |-> [r \in 1..h |-> [c \in 1..w |->
        [createCell(c - 1, r - 1) EXCEPT
            !.walls = [side \in {"top", "right", "bottom", "left"} |->
                          <<c - 1, r - 1, side>> \notin S]]]]]

\* solveMaze is applied, for every in-bounds start and end, to every grid of
\* at most SolveMaxFree cells with any flags on its internal edges (the two
\* sides of an edge may disagree), and to every grid of at most SolveMaxCells
\* cells with any set of internal walls removed on both sides.  The flags on
\* the outer boundary stay set: solveMaze never reads them.
InitSolve ==
    /\ pc = "solve"
    /\ width \in 1..SolveMaxCells
    /\ height \in 1..SolveMaxCells
    /\ \/ /\ width * height <= SolveMaxFree
          /\ \E S \in SUBSET InternalFlags(width, height) :
                maze = OpenFlags(width, height, S)
       \/ /\ width * height <= SolveMaxCells
          /\ \E E \in SUBSET InternalEdges(width, height) :
                maze = OpenFlags(width, height, BothFlags(E))
    /\ start \in Points(maze)
    /\ end \in Points(maze)
    /\ difficulty = 0
    /\ stack = <<>>
    /\ steps = 0
    /\ queue = <<>>
    /\ visited = {}
    /\ iterations = 0
    /\ redone = <<>>
    /\ page = NoPage
    /\ stored = NoRecord
    /\ result = <<>>
    /\ data = <<>>
    /\ out = NoMaze
    /\ entrance = "none"
    /\ exit = "none"
    /\ twin = NoTwin

\* Faulty variant of shift: queue.pop(), which removes the last entry.
popLast(q) == [entry |-> q[Len(q)], rest |-> SubSeq(q, 1, Len(q) - 1)]

\* queue.shift(): the removed front entry and the rest of the queue
shift(q) == [entry |-> Head(q), rest |-> Tail(q)]

\* queue.push({point: start, path: [start]}); visited.add(key); iterations = 0
SolveEnter ==
    /\ pc = "solve"
    /\ queue' = <<[point |-> start, path |-> <<start>>]>>
    /\ visited' = {key(start.x, start.y)}
    /\ iterations' = 0
    /\ pc' = "bfs"
    /\ UNCHANGED <<pageVars, resolveVars, twin, width, height, maze, genVars, start, end, result, codecVars>>

\* loop body: the dequeued point is end, return path
SolveFound ==
    /\ pc = "bfs"
    /\ Len(queue) > 0 /\ iterations < maxIterations(maze)
    /\ LET current == shift(queue).entry.point
           path == shift(queue).entry.path
       IN  /\ current.x = end.x /\ current.y = end.y
           /\ result' = path
    /\ iterations' = iterations + 1
    /\ queue' = shift(queue).rest
    /\ pc' = "solved"
    /\ UNCHANGED <<pageVars, resolveVars, twin, width, height, maze, genVars, start, end, visited, codecVars>>

\* loop body: the dequeued point is not end, its open neighbours are enqueued
SolveExpand ==
    /\ pc = "bfs"
    /\ Len(queue) > 0 /\ iterations < maxIterations(maze)
    /\ LET current == shift(queue).entry.point
           path == shift(queue).entry.path
           vq == tryDirections(maze, current, path, 1,
                    [visited |-> visited, queue |-> shift(queue).rest])
       IN  /\ ~(current.x = end.x /\ current.y = end.y)
           /\ visited' = vq.visited
           /\ queue' = vq.queue
           /\ maze' = SetCell(maze, current.x, current.y,
                              cellAfterVisit(At(maze, current.x, current.y)))
    /\ iterations' = iterations + 1
    /\ UNCHANGED <<pageVars, resolveVars, twin, pc, width, height, genVars, start, end, result, codecVars>>

\* Faulty variant of fallback: an empty path when the queue is empty.
fallbackEmpty(q, s) == IF Len(q) > 0 THEN q[1].path ELSE <<>>

\* if (queue.length > 0) return queue[0].path; return [start]
fallback(q, s) == IF Len(q) > 0 THEN q[1].path ELSE <<s>>

\* loop exit without reaching end: queue[0].path if the queue is non-empty,
\* [start] otherwise
SolveGiveUp ==
    /\ pc = "bfs"
    /\ ~(Len(queue) > 0 /\ iterations < maxIterations(maze))
    /\ result' = fallback(queue, start)
    /\ pc' = "solved"
    /\ UNCHANGED <<pageVars, resolveVars, twin, width, height, maze, genVars, start, end, queue, visited,
                   iterations, codecVars>>

NextSolve ==
    \/ SolveEnter
    \/ SolveFound
    \/ SolveExpand
    \/ SolveGiveUp

SpecSolve == InitSolve /\ [][NextSolve]_vars

(***************************************************************************)
(* serializeMaze / deserializeMaze                                         *)
(*                                                                         *)
(* A string is held as the sequence of its characters.                     *)
(***************************************************************************)
Pow2(k) == IF k = 0 THEN 1 ELSE IF k = 1 THEN 2 ELSE IF k = 2 THEN 4 ELSE 8

Bit(v, k) == (v \div Pow2(k)) % 2

\* a | b and a & b on the values that occur here (0..15)
BitOr(a, b) ==
    LET o(k) == IF Bit(a, k) = 1 \/ Bit(b, k) = 1 THEN Pow2(k) ELSE 0
    IN  o(0) + o(1) + o(2) + o(3)

BitAnd(a, b) ==
    LET n(k) == IF Bit(a, k) = 1 /\ Bit(b, k) = 1 THEN Pow2(k) ELSE 0
    IN  n(0) + n(1) + n(2) + n(3)

LowerHex == <<"0", "1", "2", "3", "4", "5", "6", "7",
              "8", "9", "a", "b", "c", "d", "e", "f">>
UpperHex == <<"0", "1", "2", "3", "4", "5", "6", "7",
              "8", "9", "A", "B", "C", "D", "E", "F">>

NaN == -1

\* Faulty variant of toString16: the digits above 9 come out in upper case.
toString16Upper(value) == UpperHex[value + 1]

\* value.toString(16) for value in 0..15
toString16(value) == LowerHex[value + 1]

\* Faulty variant of parseInt16: the digits are read in base 10.
parseInt16Decimal(ch) ==
    IF \E i \in 1..10 : LowerHex[i] = ch
    THEN (CHOOSE i \in 1..10 : LowerHex[i] = ch) - 1
    ELSE NaN

\* parseInt(ch, 16) for a one-character string ch: the digit's value for
\* 0-9, a-f and A-F, NaN for every other character (NaN is held as a value
\* no digit has)
parseInt16(ch) ==
    IF \E i \in 1..16 : LowerHex[i] = ch
    THEN (CHOOSE i \in 1..16 : LowerHex[i] = ch) - 1
    ELSE IF \E i \in 1..16 : UpperHex[i] = ch
    THEN (CHOOSE i \in 1..16 : UpperHex[i] = ch) - 1
    ELSE NaN

\* value & bit, where a NaN operand converts to 0
maskBit(value, bit) == IF value = NaN THEN 0 ELSE BitAnd(value, bit)

\* Faulty variant of cellDigit: the weights of right and bottom exchanged.
cellDigitSwapped(cell) ==
    LET v0 == 0
        v1 == IF cell.walls.top THEN BitOr(v0, 1) ELSE v0
        v2 == IF cell.walls.right THEN BitOr(v1, 4) ELSE v1
        v3 == IF cell.walls.bottom THEN BitOr(v2, 2) ELSE v2
        v4 == IF cell.walls.left THEN BitOr(v3, 8) ELSE v3
    IN  toString16(v4)

\* the digit of one cell
cellDigit(cell) ==
    LET v0 == 0
        v1 == IF cell.walls.top THEN BitOr(v0, 1) ELSE v0
        v2 == IF cell.walls.right THEN BitOr(v1, 2) ELSE v1
        v3 == IF cell.walls.bottom THEN BitOr(v2, 4) ELSE v2
        v4 == IF cell.walls.left THEN BitOr(v3, 8) ELSE v3
    IN  toString16(v4)

RECURSIVE serializeRow(_, _)
serializeRow(row, i) ==
    IF i > Len(row) THEN <<>>
    ELSE <<cellDigit(row[i])>> \o serializeRow(row, i + 1)

RECURSIVE serializeRows(_, _)
serializeRows(cells, r) ==
    IF r > Len(cells) THEN <<>>
    ELSE serializeRow(cells[r], 1) \o serializeRows(cells, r + 1)

serializeMaze(m) == serializeRows(m.cells, 1)

\* Faulty variant of charAt: a missing character counts as 'f'.
charAtDefaultF(text, dataIndex) ==
    IF dataIndex + 1 <= Len(text) THEN text[dataIndex + 1] ELSE "f"

\* data[dataIndex] || '0'
charAt(text, dataIndex) ==
    IF dataIndex + 1 <= Len(text) THEN text[dataIndex + 1] ELSE "0"

\* dataIndex starts at 0 and grows by one per cell, rows outermost: at cell
\* (x, y) it is y * width + x
deserializeCell(text, w, px, py) ==
    LET dataIndex == py * w + px
        value == parseInt16(charAt(text, dataIndex))
    IN  [x |-> px, y |-> py,
         walls |-> [top    |-> maskBit(value, 1) # 0,
                    right  |-> maskBit(value, 2) # 0,
                    bottom |-> maskBit(value, 4) # 0,
                    left   |-> maskBit(value, 8) # 0],
         visited |-> FALSE]

deserializeMaze(text, w, h) ==
    [width |-> w, height |-> h,
     cells |-> [r \in 1..h |-> [c \in 1..w |->
                   deserializeCell(text, w, c - 1, r - 1)]]]

(***************************************************************************)
(* Inputs of the codec.                                                    *)
(***************************************************************************)
Sides == {"top", "right", "bottom", "left"}

AllWalls == [Sides -> BOOLEAN]

\* a grid of the given shape whose cell (c - 1, r - 1) holds the wall and
\* visited flags f[r][c]
GridOf(w, h, f) ==
    [width |-> w, height |-> h,
     cells |-> [r \in 1..h |-> [c \in 1..w |->
                   [x |-> c - 1, y |-> r - 1,
                    walls |-> f[r][c].walls, visited |-> f[r][c].visited]]]]

\* a grid of any shape whose cell number i (row-major) holds the wall bits of
\* (a + b * i) mod 16 (b = 0: the same flags in every cell); visited is all false (v = 0), all true (v = 1) or
\* alternating (v = 2)
PatternGrid(w, h, a, b, v) ==
    [width |-> w, height |-> h,
     cells |-> [r \in 1..h |-> [c \in 1..w |->
        LET i == (r - 1) * w + (c - 1)
            n == (a + b * i) % 16
        IN  [x |-> c - 1, y |-> r - 1,
             walls |-> [top    |-> Bit(n, 0) = 1,
                        right  |-> Bit(n, 1) = 1,
                        bottom |-> Bit(n, 2) = 1,
                        left   |-> Bit(n, 3) = 1],
             visited |-> IF v = 0 THEN FALSE
                         ELSE IF v = 1 THEN TRUE
                         ELSE i % 2 = 0]]]]

\* hexadecimal digits in both cases and characters that are no digits
Chars == {LowerHex[i] : i \in 1..16} \cup {"A", "F"} \cup {"g", " ", "-"}

\* serializeMaze is applied to every grid of at most CodecMaxCells cells and
\* to the patterned grids of the larger shapes; deserializeMaze to every text
\* of at most MaxTextLen characters, for every shape
InitCodec ==
    /\ \/ /\ pc = "serialize"
          /\ width \in 1..CodecMaxCells
          /\ height \in 1..CodecMaxCells
          /\ width * height <= CodecMaxCells
          /\ \E f \in [1..height -> [1..width ->
                          [walls : AllWalls, visited : BOOLEAN]]] :
                maze = GridOf(width, height, f)
          /\ data = <<>>
       \/ /\ pc = "serialize"
          /\ width \in 1..CodecMaxW
          /\ height \in 1..CodecMaxH
          /\ \E a \in 0..15, b \in {0, 1, 3, 5}, v \in 0..2 :
                maze = PatternGrid(width, height, a, b, v)
          /\ data = <<>>
       \/ /\ pc = "deserialize"
          /\ maze = NoMaze
          /\ width \in 1..CodecMaxW
          /\ height \in 1..CodecMaxH
          /\ \E n \in 0..MaxTextLen : data \in [1..n -> Chars]
    /\ out = NoMaze
    /\ difficulty = 0
    /\ stack = <<>>
    /\ steps = 0
    /\ start = NoPoint
    /\ end = NoPoint
    /\ queue = <<>>
    /\ visited = {}
    /\ iterations = 0
    /\ redone = <<>>
    /\ page = NoPage
    /\ stored = NoRecord
    /\ result = <<>>
    /\ entrance = "none"
    /\ exit = "none"
    /\ twin = NoTwin

\* data = serializeMaze(maze)
Serialize ==
    /\ pc = "serialize"
    /\ data' = serializeMaze(maze)
    /\ pc' = "serialized"
    /\ UNCHANGED <<pageVars, resolveVars, twin, width, height, maze, genVars, solveVars, out, redone>>

\* deserializeMaze(serializeMaze(maze), maze.width, maze.height)
DeserializeBack ==
    /\ pc = "serialized"
    /\ out' = deserializeMaze(data, maze.width, maze.height)
    /\ pc' = "roundtrip"
    /\ UNCHANGED <<pageVars, resolveVars, twin, width, height, maze, genVars, solveVars, data, redone>>

\* deserializeMaze(data, width, height) on a text of any origin
Deserialize ==
    /\ pc = "deserialize"
    /\ out' = deserializeMaze(data, width, height)
    /\ pc' = "deserialized"
    /\ UNCHANGED <<pageVars, resolveVars, twin, width, height, maze, genVars, solveVars, data, redone>>

NextCodec ==
    \/ Serialize
    \/ DeserializeBack
    \/ Deserialize

SpecCodec == InitCodec /\ [][NextCodec]_vars

(***************************************************************************)
(* Reference notions the properties are stated in.  None of them is used   *)
(* by the operations above.                                                *)
(***************************************************************************)
Abs(n) == IF n < 0 THEN -n ELSE n

\* p and q are four-adjacent
Adjacent4(p, q) == Abs(p.x - q.x) + Abs(p.y - q.y) = 1

\* the side of p that faces its neighbour q
Toward(p, q) ==
    IF q.x = p.x + 1 THEN "right"
    ELSE IF q.x = p.x - 1 THEN "left"
    ELSE IF q.y = p.y + 1 THEN "bottom"
    ELSE "top"

\* the wall flag p holds on the edge it shares with q
FlagToward(m, p, q) == At(m, p.x, p.y).walls[Toward(p, q)]

\* one can step from p to its neighbour q: p holds no wall on that side
Open(m, p, q) == Adjacent4(p, q) /\ ~FlagToward(m, p, q)

\* the wall between p and q is removed (on both sides)
Joined(m, p, q) == Open(m, p, q) /\ Open(m, q, p)

\* every pair of adjacent cells agrees on the wall between them
WallSymmetric(m) ==
    \A p \in Points(m), q \in Points(m) :
        Adjacent4(p, q) => (FlagToward(m, p, q) = FlagToward(m, q, p))

\* the open-edge graph: the edges {p, q} whose wall is removed
OpenEdges(m) ==
    {e \in {{p, q} : p \in Points(m), q \in Points(m)} :
        \E p \in e, q \in e : Joined(m, p, q)}

\* the internal edges on which at least one of the two flags is cleared
BreachedEdges(m) ==
    {e \in {{p, q} : p \in Points(m), q \in Points(m)} :
        \E p \in e, q \in e : Open(m, p, q)}

\* the cells connected to those of S by the edges of G
RECURSIVE ConnectedTo(_, _)
ConnectedTo(G, S) ==
    LET N == S \cup {q \in UNION G : \E p \in S : {p, q} \in G}
    IN  IF N = S THEN S ELSE ConnectedTo(G, N)

\* G is a spanning tree of the cell set V: it connects all of V and none of
\* its edges lies on a cycle (removing any edge separates its two ends)
SpanningTree(G, V) ==
    /\ \A p \in V : ConnectedTo(G, {p}) = V
    /\ \A e \in G : \A p \in e : ~(e \subseteq ConnectedTo(G \ {e}, {p}))

(***************************************************************************)
(* Properties of generateMaze and createMaze (specification SpecGenerate). *)
(***************************************************************************)

\* C1: the grid generateMaze returns has an open-edge graph that is
\* connected and acyclic over all width * height cells, and exactly
\* width * height - 1 internal walls are removed.
C1_SpanningTree ==
    pc = "generated" =>
        /\ maze.width = width /\ maze.height = height
        /\ SpanningTree(OpenEdges(maze), Points(maze))
        /\ Cardinality(OpenEdges(maze)) = width * height - 1
        /\ Cardinality(BreachedEdges(maze)) = width * height - 1

\* C1 witness: a 3 x 3 maze has been returned in which some cell has three
\* open sides (the tree branches).
C1_Witness ==
    /\ pc = "generated"
    /\ width = 3 /\ height = 3
    /\ \E p \in Points(maze) :
          Cardinality({q \in Points(maze) : Joined(maze, p, q)}) = 3

\* C2: every cell of the grid generateMaze returns has visited = true.
C2_AllVisited ==
    pc = "generated" =>
        \A px \in 0..(width - 1), py \in 0..(height - 1) :
            At(maze, px, py).visited = TRUE

\* C2 witness: generateMaze has returned a grid of several rows and columns,
\* every cell of which was pushed once and popped once.
C2_Witness ==
    /\ pc = "generated"
    /\ width >= 2 /\ height >= 2
    /\ steps = 2 * width * height - 1

\* C10: createMaze(width, height) returns a Grid of that width and height,
\* with height rows of width cells, cells[y][x].x = x and cells[y][x].y = y,
\* and every cell with all four walls and visited = false.
C10_CreateMaze ==
    pc = "created" =>
        /\ maze.width = width /\ maze.height = height
        /\ Len(maze.cells) = height
        /\ \A r \in 1..height : Len(maze.cells[r]) = width
        /\ \A px \in 0..(width - 1), py \in 0..(height - 1) :
              /\ maze.cells[py + 1][px + 1].x = px
              /\ maze.cells[py + 1][px + 1].y = py
              /\ maze.cells[py + 1][px + 1].walls.top = TRUE
              /\ maze.cells[py + 1][px + 1].walls.right = TRUE
              /\ maze.cells[py + 1][px + 1].walls.bottom = TRUE
              /\ maze.cells[py + 1][px + 1].walls.left = TRUE
              /\ maze.cells[py + 1][px + 1].visited = FALSE

\* C10 witness: createMaze has returned a grid that is wider than high.
C10_Witness ==
    /\ pc = "created"
    /\ width = 3 /\ height = 2
    /\ Len(maze.cells) = 2 /\ Len(maze.cells[1]) = 3

(***************************************************************************)
(* Properties of solveMaze (specification SpecSolve).  A route is          *)
(* wall-free when every step leaves a cell through a side that holds no    *)
(* wall, which is the flag solveMaze reads; in a wall-symmetric grid that  *)
(* is the same as no wall on either side.                                  *)
(***************************************************************************)

\* the cells a wall-free route leads to from the cells of S
RECURSIVE ReachableFrom(_, _)
ReachableFrom(m, S) ==
    LET N == S \cup {q \in Points(m) : \E p \in S : Open(m, p, q)}
    IN  IF N = S THEN S ELSE ReachableFrom(m, N)

RouteExists(m, s, e) == e \in ReachableFrom(m, {s})

\* the least number of steps of a wall-free route from the cells of S to e,
\* S being the cells at d steps from the start and Seen those at d or fewer
RECURSIVE HopsFrom(_, _, _, _, _)
HopsFrom(m, S, Seen, e, d) ==
    IF e \in S THEN d
    ELSE LET N == {q \in Points(m) \ Seen : \E p \in S : Open(m, p, q)}
         IN  IF N = {} THEN -1 ELSE HopsFrom(m, N, Seen \cup N, e, d + 1)

\* the reference BFS distance from s to e (-1 when there is no route)
Distance(m, s, e) == HopsFrom(m, {s}, {s}, e, 0)

\* C4: when a wall-free route from start to end exists, solveMaze returns a
\* sequence that begins with start, ends with end and in which every
\* consecutive pair is four-adjacent with no wall between the two cells.
C4_ValidPath ==
    (pc = "solved" /\ RouteExists(maze, start, end)) =>
        /\ Len(result) >= 1
        /\ result[1] = start
        /\ result[Len(result)] = end
        /\ \A i \in 1..(Len(result) - 1) :
              /\ InBounds(maze, result[i]) /\ InBounds(maze, result[i + 1])
              /\ Adjacent4(result[i], result[i + 1])
              /\ Open(maze, result[i], result[i + 1])
              /\ WallSymmetric(maze) => Joined(maze, result[i], result[i + 1])

\* C4 witness: solveMaze has returned a route of at least three steps in a
\* grid that also holds walls between cells.
C4_Witness ==
    /\ pc = "solved"
    /\ RouteExists(maze, start, end)
    /\ Len(result) >= 4
    /\ \E p \in Points(maze), q \in Points(maze) :
          Adjacent4(p, q) /\ FlagToward(maze, p, q)

\* C5: a returned path that ends at end has the least number of steps among
\* all wall-free routes from start to end: its length is the reference BFS
\* distance plus one.
C5_ShortestPath ==
    (pc = "solved" /\ Len(result) >= 1 /\ result[Len(result)] = end) =>
        Len(result) = Distance(maze, start, end) + 1

\* C5 witness: solveMaze has returned a path to end although a longer route
\* without repeated cells exists as well (the two ends are neighbours with no
\* wall between them and stay connected when that edge is closed).
C5_Witness ==
    /\ pc = "solved"
    /\ Len(result) = 2 /\ result[2] = end /\ start # end
    /\ end \in ConnectedTo(OpenEdges(maze) \ {{start, end}}, {start})

\* C6: when no wall-free route from start to end exists, solveMaze returns
\* exactly the one-element sequence [start].
C6_NoRoute ==
    (pc = "solved" /\ ~RouteExists(maze, start, end)) =>
        result = <<start>>

\* C6 witness: solveMaze has given up after visiting cells other than start,
\* end being cut off from them.
C6_Witness ==
    /\ pc = "solved"
    /\ ~RouteExists(maze, start, end)
    /\ Cardinality(visited) >= 3
    /\ result = <<start>>

(***************************************************************************)
(* Properties of the codec (specification SpecCodec).                      *)
(***************************************************************************)

\* the sixteen digits serializeMaze may write and the value of each
RefDigits == <<"0", "1", "2", "3", "4", "5", "6", "7",
               "8", "9", "a", "b", "c", "d", "e", "f">>

\* the value of a hexadecimal digit of either case, -1 for any other character
RefValue(ch) ==
    IF \E n \in 0..15 : RefDigits[n + 1] = ch
    THEN CHOOSE n \in 0..15 : RefDigits[n + 1] = ch
    ELSE IF ch = "A" THEN 10 ELSE IF ch = "B" THEN 11 ELSE IF ch = "C" THEN 12
    ELSE IF ch = "D" THEN 13 ELSE IF ch = "E" THEN 14 ELSE IF ch = "F" THEN 15
    ELSE -1

\* (top ? 1 : 0) + (right ? 2 : 0) + (bottom ? 4 : 0) + (left ? 8 : 0)
WallSum(w) ==
    (IF w.top THEN 1 ELSE 0) + (IF w.right THEN 2 ELSE 0)
    + (IF w.bottom THEN 4 ELSE 0) + (IF w.left THEN 8 ELSE 0)

FullyWalled(m) ==
    \A p \in Points(m) :
        \A side \in Sides : At(m, p.x, p.y).walls[side]

\* C7: deserialize(serialize(g), g.width, g.height) has the wall flags of g
\* in every cell and visited = false in every cell, whatever the wall and
\* visited flags of g.
C7_RoundTrip ==
    pc = "roundtrip" =>
        /\ out.width = maze.width /\ out.height = maze.height
        /\ Len(out.cells) = maze.height
        /\ \A py \in 0..(maze.height - 1) :
              /\ Len(out.cells[py + 1]) = maze.width
              /\ \A px \in 0..(maze.width - 1) :
                    /\ At(out, px, py).walls = At(maze, px, py).walls
                    /\ At(out, px, py).visited = FALSE
                    /\ At(out, px, py).x = px /\ At(out, px, py).y = py

\* C7 witness: a grid of two rows and two or more columns with a visited
\* cell and two cells of different walls has gone through the round trip.
C7_Witness ==
    /\ pc = "roundtrip"
    /\ maze.width >= 2 /\ maze.height = 2
    /\ \E p \in Points(maze) : At(maze, p.x, p.y).visited
    /\ \E p \in Points(maze), q \in Points(maze) :
          At(maze, p.x, p.y).walls # At(maze, q.x, q.y).walls

\* C8: serialize(grid) is a string of exactly width * height characters whose
\* character at index y * width + x is the hexadecimal digit of
\* (top?1:0) + (right?2:0) + (bottom?4:0) + (left?8:0) of cell (x, y); a
\* fully walled grid serializes to all 'f'.
C8_SerializeFormat ==
    pc = "serialized" =>
        /\ Len(data) = maze.width * maze.height
        /\ \A px \in 0..(maze.width - 1), py \in 0..(maze.height - 1) :
              data[(py * maze.width + px) + 1]
                  = RefDigits[WallSum(At(maze, px, py).walls) + 1]
        /\ FullyWalled(maze) => \A i \in 1..Len(data) : data[i] = "f"

\* C8 witness: a grid of two rows and three columns whose six cells hold six
\* different wall combinations, one of them above 9, has been serialized.
C8_Witness ==
    /\ pc = "serialized"
    /\ maze.width = 3 /\ maze.height = 2
    /\ Cardinality({data[i] : i \in 1..Len(data)}) = 6
    /\ \E i \in 1..Len(data) : data[i] \in {"a", "b", "c", "d", "e", "f"}

\* C9: deserialize(text, width, height) yields a grid for every text: a cell
\* whose character is missing (text shorter than width * height) or is no
\* hexadecimal digit has all four wall flags false, and a cell with a digit
\* has the flags of that digit's bits.
C9_DeserializeTotal ==
    pc = "deserialized" =>
        /\ out.width = width /\ out.height = height
        /\ Len(out.cells) = height
        /\ \A py \in 0..(height - 1) :
              /\ Len(out.cells[py + 1]) = width
              /\ \A px \in 0..(width - 1) :
                    LET i == py * width + px
                        v == IF i + 1 <= Len(data) THEN RefValue(data[i + 1])
                             ELSE -1
                        c == At(out, px, py)
                    IN  /\ c.x = px /\ c.y = py /\ c.visited = FALSE
                        /\ v = -1 =>
                              c.walls = [top |-> FALSE, right |-> FALSE,
                                         bottom |-> FALSE, left |-> FALSE]
                        /\ v # -1 => WallSum(c.walls) = v

\* C9 witness: a text that is too short and holds a digit above 9, a capital
\* digit or a character that is no digit has been deserialized.
C9_Witness ==
    /\ pc = "deserialized"
    /\ Len(data) = 2 /\ width * height > 2
    /\ data[1] \in {"a", "f", "A", "F"}
    /\ data[2] \in {"g", " ", "-"}
    /\ WallSum(At(out, 0, 0).walls) >= 10

(***************************************************************************)
(* The three producers of grids side by side: createMaze and generateMaze  *)
(* as in SpecGenerate, deserializeMaze as in SpecCodec.                    *)
(***************************************************************************)
InitProducers == InitGenerate \/ InitCodec

NextProducers == NextGenerate \/ NextCodec

SpecProducers == InitProducers /\ [][NextProducers]_vars

\* C3 as stated: wall symmetry holds for every Grid produced by createGrid,
\* by generate and by deserialize(text, width, height) for any text.
C3_SymmetryOfAnyText ==
    /\ pc \in {"created", "generated"} => WallSymmetric(maze)
    /\ pc \in {"deserialized", "roundtrip"} => WallSymmetric(out)

\* C3: wall symmetry holds for every Grid produced by createGrid and by
\* generate, and for the Grid deserialize produces from the serialization of
\* a wall-symmetric grid of the same width and height.
C3_SymmetryOfProducers ==
    /\ pc \in {"created", "generated"} => WallSymmetric(maze)
    /\ (pc = "roundtrip" /\ WallSymmetric(maze)) => WallSymmetric(out)

\* C3 witness: the serialization of a wall-symmetric grid with an open edge
\* has been deserialized.
C3_Witness ==
    /\ pc = "roundtrip"
    /\ WallSymmetric(maze)
    /\ \E p \in Points(out), q \in Points(out) : Joined(out, p, q)

(***************************************************************************)
(* getEntranceCoordinates / getExitCoordinates                             *)
(***************************************************************************)
EntrancePosition ==
    {"top-left", "top-right", "bottom-left", "bottom-right", "center"}

ExitPosition ==
    {"top-left", "top-right", "bottom-left", "bottom-right", "opposite"}

\* Math.floor(n / 2)
floorHalf(n) == n \div 2

\* Faulty variant of getEntranceCoordinates: the centre is rounded up.
getEntranceCoordinatesRoundUp(m, position) ==
    CASE position = "top-left" -> Point(0, 0)
      [] position = "top-right" -> Point(m.width - 1, 0)
      [] position = "bottom-left" -> Point(0, m.height - 1)
      [] position = "bottom-right" -> Point(m.width - 1, m.height - 1)
      [] position = "center" ->
            Point(floorHalf(m.width + 1), floorHalf(m.height + 1))

getEntranceCoordinates(m, position) ==
    CASE position = "top-left" -> Point(0, 0)
      [] position = "top-right" -> Point(m.width - 1, 0)
      [] position = "bottom-left" -> Point(0, m.height - 1)
      [] position = "bottom-right" -> Point(m.width - 1, m.height - 1)
      [] position = "center" -> Point(floorHalf(m.width), floorHalf(m.height))

\* Faulty variant of getExitCoordinates: an entrance at the centre is
\* answered with the top-left corner.
getExitCoordinatesCenterTopLeft(m, entr, ex) ==
    CASE ex = "opposite" ->
            IF entr = "top-left" THEN Point(m.width - 1, m.height - 1)
            ELSE IF entr = "top-right" THEN Point(0, m.height - 1)
            ELSE IF entr = "bottom-left" THEN Point(m.width - 1, 0)
            ELSE IF entr = "bottom-right" THEN Point(0, 0)
            ELSE IF entr = "center" THEN Point(0, 0)
            ELSE Point(m.width - 1, m.height - 1)
      [] ex = "top-left" -> Point(0, 0)
      [] ex = "top-right" -> Point(m.width - 1, 0)
      [] ex = "bottom-left" -> Point(0, m.height - 1)
      [] ex = "bottom-right" -> Point(m.width - 1, m.height - 1)
      [] OTHER -> Point(m.width - 1, m.height - 1)

\* The last ELSE of the first arm is the break that falls to the final
\* return; OTHER is the final return for an exit outside the switch.
getExitCoordinates(m, entr, ex) ==
    CASE ex = "opposite" ->
            IF entr = "top-left" THEN Point(m.width - 1, m.height - 1)
            ELSE IF entr = "top-right" THEN Point(0, m.height - 1)
            ELSE IF entr = "bottom-left" THEN Point(m.width - 1, 0)
            ELSE IF entr = "bottom-right" THEN Point(0, 0)
            ELSE IF entr = "center" THEN Point(m.width - 1, m.height - 1)
            ELSE Point(m.width - 1, m.height - 1)
      [] ex = "top-left" -> Point(0, 0)
      [] ex = "top-right" -> Point(m.width - 1, 0)
      [] ex = "bottom-left" -> Point(0, m.height - 1)
      [] ex = "bottom-right" -> Point(m.width - 1, m.height - 1)
      [] OTHER -> Point(m.width - 1, m.height - 1)

\* The two functions are applied, for every position and exit, to a freshly
\* created grid of every shape and to a Maze of that width and height with
\* no cells at all (cells: []).
InitResolve ==
    /\ pc = "resolve"
    /\ width \in 1..ResolveMaxW
    /\ height \in 1..ResolveMaxH
    /\ \E withCells \in BOOLEAN :
          maze = IF withCells THEN createMaze(width, height)
                 ELSE [width |-> width, height |-> height, cells |-> <<>>]
    /\ entrance \in EntrancePosition
    /\ exit \in ExitPosition
    /\ start = NoPoint
    /\ end = NoPoint
    /\ difficulty = 0
    /\ stack = <<>>
    /\ steps = 0
    /\ queue = <<>>
    /\ visited = {}
    /\ iterations = 0
    /\ redone = <<>>
    /\ page = NoPage
    /\ stored = NoRecord
    /\ result = <<>>
    /\ data = <<>>
    /\ out = NoMaze
    /\ twin = NoTwin

\* const entrance = getEntranceCoordinates(maze, ENTRANCE_POSITION)
ResolveEntrance ==
    /\ pc = "resolve"
    /\ start' = getEntranceCoordinates(maze, entrance)
    /\ pc' = "entrance"
    /\ UNCHANGED <<pageVars, resolveVars, twin, width, height, maze, genVars, end,
                   queue, visited, iterations, result, codecVars>>

\* const exit = getExitCoordinates(maze, ENTRANCE_POSITION, EXIT_POSITION)
ResolveExit ==
    /\ pc = "entrance"
    /\ end' = getExitCoordinates(maze, entrance, exit)
    /\ pc' = "resolved"
    /\ UNCHANGED <<pageVars, resolveVars, twin, width, height, maze, genVars, start,
                   queue, visited, iterations, result, codecVars>>

NextResolve ==
    \/ ResolveEntrance
    \/ ResolveExit

SpecResolve == InitResolve /\ [][NextResolve]_vars

(***************************************************************************)
(* Properties of the position resolver (specification SpecResolve).        *)
(***************************************************************************)

\* the integer k with 2k <= n < 2k + 2, which is floor(n / 2)
IsFloorOfHalf(k, n) == 2 * k <= n /\ n < 2 * k + 2

\* C11: entranceCoordinates(grid, corner) is (0,0) for top-left, (w-1,0) for
\* top-right, (0,h-1) for bottom-left, (w-1,h-1) for bottom-right and
\* (floor(w/2), floor(h/2)) for center, for every width w and height h.
C11_EntranceCoordinates ==
    pc \in {"entrance", "resolved"} =>
        /\ entrance = "top-left" => (start.x = 0 /\ start.y = 0)
        /\ entrance = "top-right" => (start.x = width - 1 /\ start.y = 0)
        /\ entrance = "bottom-left" => (start.x = 0 /\ start.y = height - 1)
        /\ entrance = "bottom-right" =>
              (start.x = width - 1 /\ start.y = height - 1)
        /\ entrance = "center" =>
              (IsFloorOfHalf(start.x, width) /\ IsFloorOfHalf(start.y, height))

\* C11 witness: the centre of a grid of odd width and even height has been
\* resolved.
C11_Witness ==
    /\ pc = "entrance"
    /\ entrance = "center"
    /\ width = 3 /\ height = 4
    /\ start = Point(1, 2)

\* the corner diagonally opposite a corner
OppositeCorner(c) ==
    CASE c = "top-left" -> "bottom-right"
      [] c = "top-right" -> "bottom-left"
      [] c = "bottom-left" -> "top-right"
      [] c = "bottom-right" -> "top-left"

\* the coordinates of a corner of a w x h grid
CornerPoint(c, w, h) ==
    [x |-> IF c \in {"top-left", "bottom-left"} THEN 0 ELSE w - 1,
     y |-> IF c \in {"top-left", "top-right"} THEN 0 ELSE h - 1]

\* C12: for an absolute exitSpec the result of exitCoordinates is that
\* corner's coordinate for every entranceCorner; for opposite it is the
\* diagonally opposite corner of entranceCorner, and (w-1,h-1) for an
\* entrance at the centre.
C12_ExitCoordinates ==
    pc = "resolved" =>
        /\ exit # "opposite" => end = CornerPoint(exit, width, height)
        /\ (exit = "opposite" /\ entrance # "center") =>
              end = CornerPoint(OppositeCorner(entrance), width, height)
        /\ (exit = "opposite" /\ entrance = "center") =>
              end = [x |-> width - 1, y |-> height - 1]

\* C12 witness: the exit opposite an entrance at the bottom left of a grid
\* that is wider than high has been resolved.
C12_Witness ==
    /\ pc = "resolved"
    /\ exit = "opposite" /\ entrance = "bottom-left"
    /\ width = 4 /\ height = 2
    /\ end = Point(3, 0)

(***************************************************************************)
(* Two calls of generateMaze with the same width and height, each with a   *)
(* difficulty of its own, stepped side by side with the same values of     *)
(* Math.random().  The first call runs in maze, stack and steps, the       *)
(* second in twin.                                                         *)
(***************************************************************************)

\* Math.floor(Math.random() * n) for Math.random() = r / RandomGrain
randomIndex(r, n) == (r * n) \div RandomGrain

\* Faulty variant of loopBody: from difficulty 2 on the first neighbour is
\* taken, whatever Math.random() gives.
loopBodyBiased(m, st, d, r) ==
    LET top == st[Len(st)]
        current == At(m, top.x, top.y)
        neighbors == getNeighbors(current, m)
    IN  IF Len(neighbors) > 0
        THEN LET next == IF d >= 2 THEN neighbors[1]
                         ELSE neighbors[randomIndex(r, Len(neighbors)) + 1]
             IN  [maze |-> markVisited(removeWalls(m, current, next),
                                       next.x, next.y),
                  stack |-> Append(st, Point(next.x, next.y))]
        ELSE [maze |-> m, stack |-> SubSeq(st, 1, Len(st) - 1)]

\* One pass of the while loop of generateMaze(width, height, d) on maze m and
\* stack st, Math.random() giving r / RandomGrain: the maze and the stack
\* after it.  The body never reads difficulty.
loopBody(m, st, d, r) ==
    LET top == st[Len(st)]
        current == At(m, top.x, top.y)
        neighbors == getNeighbors(current, m)
    IN  IF Len(neighbors) > 0
        THEN LET next == neighbors[randomIndex(r, Len(neighbors)) + 1]
             IN  [maze |-> markVisited(removeWalls(m, current, next),
                                       next.x, next.y),
                  stack |-> Append(st, Point(next.x, next.y))]
        ELSE [maze |-> m, stack |-> SubSeq(st, 1, Len(st) - 1)]

InitTwin ==
    /\ pc = "twinGenerate"
    /\ width \in 1..GenMaxW
    /\ height \in 1..GenMaxH
    /\ difficulty \in 1..MaxDifficulty
    /\ \E d2 \in (difficulty + 1)..MaxDifficulty :
          twin = [difficulty |-> d2, maze |-> NoMaze, stack |-> <<>>,
                  steps |-> 0]
    /\ maze = NoMaze
    /\ stack = <<>>
    /\ steps = 0
    /\ start = NoPoint
    /\ end = NoPoint
    /\ queue = <<>>
    /\ visited = {}
    /\ iterations = 0
    /\ redone = <<>>
    /\ page = NoPage
    /\ stored = NoRecord
    /\ result = <<>>
    /\ data = <<>>
    /\ out = NoMaze
    /\ entrance = "none"
    /\ exit = "none"

\* both calls: createMaze, start cell visited and pushed, steps = 0
TwinEnter ==
    /\ pc = "twinGenerate"
    /\ maze' = markVisited(createMaze(width, height), 0, 0)
    /\ stack' = <<Point(0, 0)>>
    /\ steps' = 0
    /\ twin' = [twin EXCEPT !.maze = markVisited(createMaze(width, height), 0, 0),
                            !.stack = <<Point(0, 0)>>,
                            !.steps = 0]
    /\ pc' = "twinLoop"
    /\ UNCHANGED <<pageVars, resolveVars, width, height, difficulty, solveVars, codecVars>>

\* one pass of the loop in each call that is still in its loop, both with the
\* same value of Math.random()
TwinStep ==
    /\ pc = "twinLoop"
    /\ Len(stack) > 0 \/ Len(twin.stack) > 0
    /\ \E r \in 0..(RandomGrain - 1) :
          /\ IF Len(stack) > 0
             THEN LET a == loopBody(maze, stack, difficulty, r)
                  IN  /\ maze' = a.maze
                      /\ stack' = a.stack
                      /\ steps' = steps + 1
             ELSE UNCHANGED <<maze, stack, steps>>
          /\ IF Len(twin.stack) > 0
             THEN LET b == loopBody(twin.maze, twin.stack, twin.difficulty, r)
                  IN  twin' = [twin EXCEPT !.maze = b.maze,
                                           !.stack = b.stack,
                                           !.steps = twin.steps + 1]
             ELSE UNCHANGED twin
    /\ UNCHANGED <<pageVars, resolveVars, pc, width, height, difficulty, solveVars, codecVars>>

\* both loops have ended: both calls return their maze
TwinReturn ==
    /\ pc = "twinLoop"
    /\ Len(stack) = 0 /\ Len(twin.stack) = 0
    /\ pc' = "twinGenerated"
    /\ UNCHANGED <<pageVars, resolveVars, twin, width, height, maze, genVars, solveVars, codecVars>>

NextTwin ==
    \/ TwinEnter
    \/ TwinStep
    \/ TwinReturn

SpecTwin == InitTwin /\ [][NextTwin]_vars

\* C13: the difficulty argument of generate has no effect: two runs with the
\* same width and height and different difficulty values, stepped with the
\* same sequence of random choices, hold identical grids and stacks after
\* every step and return identical grids.  (The first run takes every
\* sequence of choices, so the grids one difficulty can return are those
\* every other difficulty can return.)
C13_DifficultyNoEffect ==
    pc \in {"twinLoop", "twinGenerated"} =>
        /\ maze = twin.maze
        /\ stack = twin.stack
        /\ steps = twin.steps

\* C13 witness: two runs of different difficulty have returned a 3 x 3 grid.
C13_Witness ==
    /\ pc = "twinGenerated"
    /\ difficulty # twin.difficulty
    /\ width = 3 /\ height = 3
    /\ \A p \in Points(maze) : At(maze, p.x, p.y).visited

(***************************************************************************)
(* generateMaze followed by solveMaze on the maze it returned, between any *)
(* two cells of it.                                                        *)
(***************************************************************************)
InitGenerateSolve == InitGenerate /\ difficulty = 1

\* const path = solveMaze(maze, start, end) on the generated maze
SolveGenerated ==
    /\ pc = "generated"
    /\ start' \in Points(maze)
    /\ end' \in Points(maze)
    /\ pc' = "solve"
    /\ UNCHANGED <<pageVars, resolveVars, twin, width, height, maze, genVars, queue,
                   visited, iterations, result, codecVars>>

\* The exit of the search loop without a return at end (SolveGiveUp) is left
\* out: C14_GeneratedSolvable states that it is never enabled here.
NextGenerateSolve ==
    \/ NextGenerate
    \/ SolveGenerated
    \/ SolveEnter
    \/ SolveFound
    \/ SolveExpand

SpecGenerateSolve == InitGenerateSolve /\ [][NextGenerateSolve]_vars

\* the wall-free routes without repeated cells that continue path to e
RECURSIVE SimpleRoutes(_, _, _)
SimpleRoutes(m, path, e) ==
    LET last == path[Len(path)]
        seen == {path[i] : i \in 1..Len(path)}
    IN  IF last = e THEN {path}
        ELSE UNION {SimpleRoutes(m, Append(path, q), e) :
                       q \in {n \in Points(m) \ seen : Open(m, last, n)}}

\* C14: every generated maze is solvable: for any two in-bounds cells start
\* and end of a grid generateMaze returned, solveMaze returns a non-empty
\* path that begins at start and ends at end, and that path is the only
\* wall-free route without repeated cells between them.
C14_GeneratedSolvable ==
    /\ pc = "bfs" => ~ENABLED SolveGiveUp
    /\ (pc = "solved" /\ Len(stack) = 0 /\ steps > 0) =>
            /\ Len(result) >= 1
            /\ result[1] = start
            /\ result[Len(result)] = end
            /\ SimpleRoutes(maze, <<start>>, end) = {result}

\* C14 witness: a path of five or more cells has been returned in a
\* generated 3 x 3 maze.
C14_Witness ==
    /\ pc = "solved"
    /\ steps > 0
    /\ width = 3 /\ height = 3
    /\ Len(result) >= 5
    /\ result[Len(result)] = end

(***************************************************************************)
(* Termination of generateMaze.  The call runs to completion without       *)
(* suspension, so a step that can be taken is taken: weak fairness of the  *)
(* next-state relation.                                                    *)
(***************************************************************************)
SpecGenerateFair == SpecGenerate /\ WF_vars(NextGenerate)

\* the cells marked visited
VisitedCells(m) == {p \in Points(m) : At(m, p.x, p.y).visited}

\* the number of times a cell has been marked visited so far: once for the
\* start cell and once per advance; steps counts advances and pops, and the
\* stack holds one cell more than advances minus pops
TimesMarked == (steps + Len(stack) + 1) \div 2

\* C15: generate terminates on every sequence of random choices: the stack
\* eventually becomes empty and the maze is returned, the stack is empty only
\* when every cell has been visited, and exactly width * height cells are
\* marked visited over the run, each of them once.
C15_Terminates ==
    /\ <>(pc = "loop" /\ Len(stack) = 0)
    /\ <>(pc = "generated")
    /\ [](pc \in {"loop", "generated"} =>
            /\ Len(stack) = 0 => VisitedCells(maze) = Points(maze)
            /\ (steps + Len(stack) + 1) % 2 = 0
            /\ TimesMarked = Cardinality(VisitedCells(maze)))
    /\ [](pc = "generated" =>
            /\ TimesMarked = width * height
            /\ Cardinality(Points(maze)) = width * height)

\* C15 witness: the loop of a 3 x 3 generation has ended with an empty stack
\* after 17 steps (8 advances and 9 pops).
C15_Witness ==
    /\ pc = "loop"
    /\ Len(stack) = 0
    /\ width = 3 /\ height = 3
    /\ steps = 17

(***************************************************************************)
(* createMaze and generateMaze called with any dimensions, the             *)
(* non-positive ones included.  Neither function tests its arguments.      *)
(* createMaze: a loop bound that is not positive runs no iteration, so the *)
(* call returns a grid with no rows or with empty rows.  generateMaze:     *)
(* maze.cells[0][0] is then undefined (or maze.cells[0] is), and           *)
(* "startCell.visited = true" throws a TypeError.                          *)
(***************************************************************************)
InitDimensions ==
    /\ pc \in {"create", "generate"}
    /\ width \in (0 - MaxBad)..GenMaxW
    /\ height \in (0 - MaxBad)..GenMaxH
    /\ difficulty = 1
    /\ maze = NoMaze
    /\ stack = <<>>
    /\ steps = 0
    /\ start = NoPoint
    /\ end = NoPoint
    /\ queue = <<>>
    /\ visited = {}
    /\ iterations = 0
    /\ redone = <<>>
    /\ page = NoPage
    /\ stored = NoRecord
    /\ result = <<>>
    /\ data = <<>>
    /\ out = NoMaze
    /\ entrance = "none"
    /\ exit = "none"
    /\ twin = NoTwin

\* a direct call createMaze(width, height): the grid is returned
CreateCall ==
    /\ pc = "create"
    /\ maze' = createMaze(width, height)
    /\ pc' = "createReturned"
    /\ UNCHANGED <<pageVars, resolveVars, twin, width, height, genVars, solveVars, codecVars>>

\* maze.cells[0][0] does not exist: startCell.visited = true throws
GenStartThrows ==
    /\ pc = "created"
    /\ ~(width >= 1 /\ height >= 1)
    /\ pc' = "error"
    /\ UNCHANGED <<pageVars, resolveVars, twin, width, height, maze, genVars, solveVars,
                   codecVars>>

NextDimensions ==
    \/ CreateCall
    \/ NextGenerate
    \/ GenStartThrows

SpecDimensions == InitDimensions /\ [][NextDimensions]_vars

\* a Grid has been returned to the caller
GridReturned == pc \in {"createReturned", "generated"}

\* C16: grid construction with invalid dimensions fails fast: createMaze and
\* generateMaze called with width <= 0 or height <= 0 end in an error outcome
\* and never return a Grid.  (Violated: createMaze returns a degenerate Grid.)
C16_InvalidDimensionsFail ==
    (width <= 0 \/ height <= 0) => ~GridReturned

(***************************************************************************)
(* The four operations that take a grid and return something else:         *)
(* solveMaze, serializeMaze, getEntranceCoordinates, getExitCoordinates,   *)
(* each called on its own inputs.  maze is the caller's grid object, which *)
(* the callee receives by reference.                                       *)
(***************************************************************************)
InitFrame ==
    \/ InitSolve
    \/ InitCodec /\ pc = "serialize"
    \/ InitResolve

NextFrame ==
    \/ NextSolve
    \/ Serialize
    \/ NextResolve

SpecFrame == InitFrame /\ [][NextFrame]_vars

\* the grid of the same width and height with no cell at all
WithoutCells(m) == [width |-> m.width, height |-> m.height, cells |-> <<>>]

\* C17: solve, serialize, entranceCoordinates and exitCoordinates leave the
\* grid passed to them unchanged: no step of any of them changes a cell's
\* wall flags, visited flag or coordinates, or the grid's width or height; and
\* the two coordinate functions do not read cell contents: their results are
\* those computed on the grid stripped of its cells.
C17_GridUnchanged ==
    /\ [][maze' = maze /\ width' = width /\ height' = height]_vars
    /\ [](pc \in {"entrance", "resolved"} =>
            start = getEntranceCoordinates(WithoutCells(maze), entrance))
    /\ [](pc = "resolved" =>
            end = getExitCoordinates(WithoutCells(maze), entrance, exit))

\* C17 witness: a search over a grid with open walls has dequeued at least
\* three cells and returned a path of at least three cells.
C17_Witness ==
    /\ pc = "solved"
    /\ iterations >= 3
    /\ Len(result) >= 3
    /\ ~FullyWalled(maze)

(***************************************************************************)
(* Properties of the search loop itself (specification SpecSolve).         *)
(***************************************************************************)
\* the step leaves the loop without a dequeue: the while condition failed
LoopExit == pc = "bfs" /\ pc' = "solved" /\ iterations' = iterations

\* C18: solve performs at most width * height * 4 dequeue iterations; if it
\* stops without having dequeued end, it returns the path of the entry at the
\* front of the remaining frontier when the frontier is non-empty, and the
\* single-element path [start] when the frontier is empty.
C18_CapAndFallback ==
    /\ [](pc \in {"bfs", "solved"} =>
            iterations <= maze.width * maze.height * 4)
    /\ [][LoopExit =>
            /\ Len(queue) > 0 => result' = queue[1].path
            /\ Len(queue) = 0 => result' = <<start>>]_vars

\* C18 witness: the search has stopped on an empty frontier after dequeuing
\* at least two cells, none of them end, and has returned [start].
C18_Witness ==
    /\ pc = "solved"
    /\ iterations >= 2
    /\ Len(queue) = 0
    /\ start # end
    /\ result = <<start>>

\* C19: the iteration cap is never the reason the loop stops: the number of
\* dequeue iterations never exceeds width * height, so whenever the loop is
\* left without a return at end the frontier is empty.
C19_CapNeverBinds ==
    /\ pc \in {"bfs", "solved"} => iterations <= maze.width * maze.height
    /\ pc = "bfs" /\ Len(queue) > 0 =>
            iterations < maze.width * maze.height * 4
    /\ pc = "solved" /\ result[Len(result)] # end => Len(queue) = 0

\* C19 witness: the loop is about to be left on an empty frontier after
\* every cell of the grid but one has been dequeued, in a grid of four or
\* more cells.
C19_Witness ==
    /\ pc = "bfs"
    /\ Len(queue) = 0
    /\ maze.width * maze.height >= 4
    /\ iterations = maze.width * maze.height - 1

\* the points of the entries of a frontier
QueuedPoints(q) == {q[i].point : i \in 1..Len(q)}

NoRepeat(path) ==
    \A i, j \in 1..Len(path) : path[i] = path[j] => i = j

\* C20: a coordinate is added to the visited set at the moment it is
\* enqueued, so no coordinate is ever enqueued twice: the frontier never
\* holds two entries with the same point, every point in the frontier is in
\* the visited set, and every path in the frontier is free of repeated
\* points.
C20_FrontierInvariants ==
    /\ [][\A p \in QueuedPoints(queue') \ QueuedPoints(queue) :
            /\ <<p.x, p.y>> \in visited'
            /\ <<p.x, p.y>> \notin visited]_vars
    /\ [](/\ \A i, j \in 1..Len(queue) :
                queue[i].point = queue[j].point => i = j
          /\ \A i \in 1..Len(queue) :
                /\ <<queue[i].point.x, queue[i].point.y>> \in visited
                /\ NoRepeat(queue[i].path))

\* C20 witness: after two dequeues the frontier holds two entries.
C20_Witness ==
    /\ pc = "bfs"
    /\ iterations >= 2
    /\ Len(queue) >= 2

\* C21: solve dequeues points in non-decreasing distance from start: at every
\* step the path lengths of the frontier entries are non-decreasing from front
\* to back and differ by at most 1 between front and back, and each entry's
\* path length minus 1 is the shortest wall-free distance from start to that
\* entry's point.
C21_DistanceOrder ==
    /\ [](pc = "bfs" =>
            /\ \A i, j \in 1..Len(queue) :
                  i < j => Len(queue[i].path) <= Len(queue[j].path)
            /\ Len(queue) > 0 =>
                  Len(queue[Len(queue)].path) - Len(queue[1].path) <= 1
            /\ \A i \in 1..Len(queue) :
                  Len(queue[i].path) - 1 = Distance(maze, start, queue[i].point))
    /\ [][(pc = "bfs" /\ iterations' = iterations + 1 /\ Len(queue') > 0) =>
            Len(queue'[1].path) >= Len(queue[1].path)]_vars

\* C21 witness: after two dequeues the frontier holds entries of two
\* different distances, the nearer one at the front.
C21_Witness ==
    /\ pc = "bfs"
    /\ iterations >= 2
    /\ Len(queue) >= 2
    /\ Len(queue[1].path) + 1 = Len(queue[Len(queue)].path)

(***************************************************************************)
(* Properties of the intermediate states of generateMaze (specification    *)
(* SpecGenerate).                                                          *)
(***************************************************************************)
\* C22: wall symmetry holds in every intermediate state of generate, not only
\* in its result: after each loop step (advance or backtrack) the two flags on
\* the shared edge of every pair of four-adjacent cells are equal.
C22_SymmetryThroughout ==
    pc \in {"created", "loop", "generated"} => WallSymmetric(maze)

\* C22 witness: an intermediate state of the loop, after advances and at
\* least one backtrack, with cells still unvisited and a wall removed.
C22_Witness ==
    /\ pc = "loop"
    /\ Len(stack) >= 2
    /\ steps > Len(stack)
    /\ VisitedCells(maze) # Points(maze)
    /\ OpenEdges(maze) # {}

\* the neighbours of p with the wall toward p removed on both sides
JoinedNeighbours(m, p) ==
    {q \in {Point(p.x + 1, p.y), Point(p.x - 1, p.y),
            Point(p.x, p.y + 1), Point(p.x, p.y - 1)} :
        InBounds(m, q) /\ Joined(m, p, q)}

\* the cells that removed walls lead to from the cells of Seen, F being the
\* cells of Seen found last
RECURSIVE JoinedFrom(_, _, _)
JoinedFrom(m, F, Seen) ==
    LET N == UNION {JoinedNeighbours(m, p) : p \in F} \ Seen
    IN  IF N = {} THEN Seen ELSE JoinedFrom(m, N, Seen \cup N)

\* the internal walls with a flag cleared, each named by its left or upper
\* cell: a right flag or the left flag facing it, a bottom flag or the top
\* flag facing it
ClearedWalls(m) ==
    {e \in Points(m) \X {"right", "bottom"} :
        LET p == e[1]
            q == IF e[2] = "right" THEN Point(p.x + 1, p.y)
                 ELSE Point(p.x, p.y + 1)
        IN  /\ InBounds(m, q)
            /\ (Open(m, p, q) \/ Open(m, q, p))}

\* C23: in every state of generate's loop the stack holds distinct visited
\* cells, its bottom element (when non-empty) is cell (0,0), each consecutive
\* pair on the stack is four-adjacent with the wall between them removed, and
\* the number of internal walls removed so far is the number of visited
\* cells minus 1: the open-edge graph over the visited cells is a tree (no
\* unvisited cell has a wall removed, removed walls connect every visited
\* cell to (0,0), and there is one removed wall fewer than visited cells).
C23_StackAndTree ==
    pc = "loop" =>
        /\ \A i, j \in 1..Len(stack) : stack[i] = stack[j] => i = j
        /\ \A i \in 1..Len(stack) :
              /\ InBounds(maze, stack[i])
              /\ At(maze, stack[i].x, stack[i].y).visited
        /\ Len(stack) > 0 => stack[1] = Point(0, 0)
        /\ \A i \in 1..(Len(stack) - 1) :
              /\ Adjacent4(stack[i], stack[i + 1])
              /\ Joined(maze, stack[i], stack[i + 1])
        /\ Cardinality(ClearedWalls(maze)) = Cardinality(VisitedCells(maze)) - 1
        /\ \A p \in Points(maze) :
              ~At(maze, p.x, p.y).visited =>
                  \A side \in Sides : At(maze, p.x, p.y).walls[side]
        /\ JoinedFrom(maze, {Point(0, 0)}, {Point(0, 0)}) = VisitedCells(maze)

\* C23 witness: the stack holds three or more cells while more cells than
\* that are visited (the run has backtracked and advanced again).
C23_Witness ==
    /\ pc = "loop"
    /\ Len(stack) >= 3
    /\ Cardinality(VisitedCells(maze)) >= Len(stack) + 2

\* C24: generate never clears an outer boundary wall: in every state of the
\* run and in the returned grid every cell of row 0 has top = true, every
\* cell of row height - 1 has bottom = true, every cell of column 0 has
\* left = true and every cell of column width - 1 has right = true.
C24_BoundaryWalls ==
    pc \in {"created", "loop", "generated"} =>
        /\ \A px \in 0..(width - 1) :
              /\ maze.cells[1][px + 1].walls.top
              /\ maze.cells[height][px + 1].walls.bottom
        /\ \A py \in 0..(height - 1) :
              /\ maze.cells[py + 1][1].walls.left
              /\ maze.cells[py + 1][width].walls.right

\* C24 witness: a 3 x 3 grid has been returned whose eight boundary cells all
\* have a wall removed toward another cell.
C24_Witness ==
    /\ pc = "generated"
    /\ width = 3 /\ height = 3
    /\ \A p \in Points(maze) : \E q \in Points(maze) : Joined(maze, p, q)

(***************************************************************************)
(* deserializeMaze followed by serializeMaze on its result:                *)
(* serializeMaze(deserializeMaze(s, width, height)) for the texts s of     *)
(* exactly width * height lowercase hexadecimal digits.                    *)
(***************************************************************************)
LowerHexDigits == {LowerHex[i] : i \in 1..16}

InitReverse ==
    /\ pc = "deserialize"
    /\ width \in 1..ReverseMaxCells
    /\ height \in 1..ReverseMaxCells
    /\ width * height <= ReverseMaxCells
    /\ data \in [1..(width * height) -> LowerHexDigits]
    /\ maze = NoMaze
    /\ out = NoMaze
    /\ redone = <<>>
    /\ difficulty = 0
    /\ stack = <<>>
    /\ steps = 0
    /\ start = NoPoint
    /\ end = NoPoint
    /\ queue = <<>>
    /\ visited = {}
    /\ iterations = 0
    /\ result = <<>>
    /\ entrance = "none"
    /\ exit = "none"
    /\ twin = NoTwin
    /\ page = NoPage
    /\ stored = NoRecord

\* serializeMaze(out), out being the grid deserializeMaze returned
SerializeBack ==
    /\ pc = "deserialized"
    /\ redone' = serializeMaze(out)
    /\ pc' = "reserialized"
    /\ UNCHANGED <<pageVars, resolveVars, twin, width, height, maze, genVars,
                   solveVars, data, out>>

NextReverse ==
    \/ Deserialize
    \/ SerializeBack

SpecReverse == InitReverse /\ [][NextReverse]_vars

\* C25: reverse round trip: for every string s of exactly width * height
\* lowercase hexadecimal digits, serialize(deserialize(s, width, height)) is s.
C25_ReverseRoundTrip ==
    pc = "reserialized" =>
        /\ Len(redone) = width * height
        /\ \A i \in 1..(width * height) : redone[i] = data[i]

\* C25 witness: a text of three digits, one of them a letter and another a
\* decimal digit other than 0, has gone through deserialize and serialize.
C25_Witness ==
    /\ pc = "reserialized"
    /\ Len(data) = 3
    /\ \E i \in 1..3 : data[i] \in {"a", "b", "c", "d", "e", "f"}
    /\ \E i \in 1..3 : data[i] \in {"1", "2", "3", "4", "5", "6", "7", "8", "9"}

\* C27: for every grid with width, height >= 1 and every entrance position
\* and exit, the points entranceCoordinates and exitCoordinates return are in
\* bounds: 0 <= x < width and 0 <= y < height.
C27_CoordinatesInBounds ==
    /\ pc \in {"entrance", "resolved"} =>
          /\ 0 <= start.x /\ start.x < width
          /\ 0 <= start.y /\ start.y < height
    /\ pc = "resolved" =>
          /\ 0 <= end.x /\ end.x < width
          /\ 0 <= end.y /\ end.y < height

\* C27 witness: both points have been resolved in a grid one cell wide and
\* several cells high, the entrance at the centre.
C27_Witness ==
    /\ pc = "resolved"
    /\ width = 1 /\ height >= 3
    /\ entrance = "center"
    /\ exit = "opposite"
    /\ start.x = 0
    /\ end.y = height - 1

(***************************************************************************)
(* The page (+page.svelte): the component's state, its event handlers and  *)
(* the record it keeps in localStorage.                                    *)
(*                                                                         *)
(* page.maze = NoMaze stands for maze = null.  isInitialLoad is true only  *)
(* while the component's script runs, which no event or effect interleaves *)
(* with, so it is false in every state below.  An effect runs after the    *)
(* handler whose writes it depends on and before the next event: handler   *)
(* and effect form one step.                                               *)
(***************************************************************************)
DEFAULT_MAZE_SIZE == 40
MIN_MAZE_SIZE == 3
MAX_MAZE_SIZE == 50
MIN_DIFFICULTY == 1
MAX_DIFFICULTY == 10
DEFAULT_DIFFICULTY == 1
\* let difficulty = $state(5)
InitialDifficulty == 5
ENTRANCE_POSITION == "top-left"
EXIT_POSITION == "opposite"

\* solveMaze(m, s, e) as one call: the loop of SolveFound / SolveExpand /
\* SolveGiveUp run to its return
RECURSIVE solveLoop(_, _, _, _, _, _)
solveLoop(m, s, e, q, v, it) ==
    IF ~(Len(q) > 0 /\ it < maxIterations(m)) THEN fallback(q, s)
    ELSE LET current == shift(q).entry.point
             path == shift(q).entry.path
         IN  IF current.x = e.x /\ current.y = e.y THEN path
             ELSE LET vq == tryDirections(m, current, path, 1,
                               [visited |-> v, queue |-> shift(q).rest])
                  IN  solveLoop(m, s, e, vq.queue, vq.visited, it + 1)

solveMaze(m, s, e) ==
    solveLoop(m, s, e, <<[point |-> s, path |-> <<s>>]>>, {key(s.x, s.y)}, 0)

\* solveMaze(maze, getEntranceCoordinates(..), getExitCoordinates(..))
solutionOf(m) ==
    solveMaze(m, getEntranceCoordinates(m, ENTRANCE_POSITION),
                 getExitCoordinates(m, ENTRANCE_POSITION, EXIT_POSITION))

\* the state of a freshly mounted component
FreshPage ==
    [width |-> DEFAULT_MAZE_SIZE, height |-> DEFAULT_MAZE_SIZE,
     difficulty |-> InitialDifficulty, maze |-> NoMaze, solutionPath |-> <<>>,
     toggledWalls |-> {}, isGenerating |-> FALSE]

\* the record as written by saveToLocalStorage and read back by JSON.parse
SaveRecord(p) ==
    [width |-> p.width, height |-> p.height, difficulty |-> p.difficulty,
     mazeData |-> serializeMaze(p.maze), toggledWalls |-> p.toggledWalls,
     present |-> TRUE]

\* the auto-save effect: if (!maze || isInitialLoad) return; saveToLocalStorage().
\* It reads maze, toggledWalls.size and, inside saveToLocalStorage, width,
\* height, difficulty and the cells of maze: it runs again after a write to
\* any of them.
autoSave(p, rec) == IF p.maze = NoMaze THEN rec ELSE SaveRecord(p)

\* v || d for a number v
orDefault(v, d) == IF v = 0 THEN d ELSE v

\* Math.max(lo, Math.min(hi, v))
clamp(lo, hi, v) == IF v < lo THEN lo ELSE IF v > hi THEN hi ELSE v

\* the values the width and height inputs are edited to
PageSizes == PageMinSize..PageMaxSize

\* the walls the user clicks: `${cell.x}-${cell.y}-${wall}`
PageWallKeys == {<<0, 0, "right">>}

InitPage ==
    /\ pc = "page"
    /\ page = FreshPage
    /\ stored = NoRecord
    /\ width = 0
    /\ height = 0
    /\ difficulty = 0
    /\ maze = NoMaze
    /\ stack = <<>>
    /\ steps = 0
    /\ start = NoPoint
    /\ end = NoPoint
    /\ queue = <<>>
    /\ visited = {}
    /\ iterations = 0
    /\ result = <<>>
    /\ data = <<>>
    /\ out = NoMaze
    /\ redone = <<>>
    /\ entrance = "none"
    /\ exit = "none"
    /\ twin = NoTwin

\* bind:value={width}, then the auto-save effect
EditWidth ==
    /\ pc = "page"
    /\ \E w \in PageSizes :
          /\ w # page.width
          /\ page' = [page EXCEPT !.width = w]
    /\ stored' = autoSave(page', stored)
    /\ UNCHANGED <<resolveVars, twin, pc, width, height, maze, genVars,
                   solveVars, codecVars>>

\* bind:value={height}, then the auto-save effect
EditHeight ==
    /\ pc = "page"
    /\ \E h \in PageSizes :
          /\ h # page.height
          /\ page' = [page EXCEPT !.height = h]
    /\ stored' = autoSave(page', stored)
    /\ UNCHANGED <<resolveVars, twin, pc, width, height, maze, genVars,
                   solveVars, codecVars>>

\* bind:value={difficulty}, then the auto-save effect
EditDifficulty ==
    /\ pc = "page"
    /\ \E d \in 1..PageMaxDifficulty :
          /\ d # page.difficulty
          /\ page' = [page EXCEPT !.difficulty = d]
    /\ stored' = autoSave(page', stored)
    /\ UNCHANGED <<resolveVars, twin, pc, width, height, maze, genVars,
                   solveVars, codecVars>>

\* toggleWall(cell, wall) on a wall of the rendered maze, then the auto-save
\* effect
ToggleWall ==
    /\ pc = "page"
    /\ page.maze # NoMaze
    /\ \E k \in PageWallKeys :
          page' = [page EXCEPT !.toggledWalls =
                      IF k \in page.toggledWalls
                      THEN page.toggledWalls \ {k}
                      ELSE page.toggledWalls \cup {k}]
    /\ stored' = autoSave(page', stored)
    /\ UNCHANGED <<resolveVars, twin, pc, width, height, maze, genVars,
                   solveVars, codecVars>>

\* resetAndClear(); the auto-save effect returns at !maze
ResetAndClear ==
    /\ pc = "page"
    /\ page' = [page EXCEPT !.maze = NoMaze, !.solutionPath = <<>>,
                            !.toggledWalls = {}]
    /\ stored' = autoSave(page', NoRecord)
    /\ UNCHANGED <<resolveVars, twin, pc, width, height, maze, genVars,
                   solveVars, codecVars>>

\* generate(), up to its await: isGenerating = true.  The button is disabled
\* while isGenerating; sizes above PageMaxSize are not generated here.
ClickGenerate ==
    /\ pc = "page"
    /\ ~page.isGenerating
    /\ page.width <= PageMaxSize /\ page.height <= PageMaxSize
    /\ page' = [page EXCEPT !.isGenerating = TRUE]
    /\ UNCHANGED <<stored, resolveVars, twin, pc, width, height, maze, genVars,
                   solveVars, codecVars>>

\* generate(), after the await: generateMaze(width, height, difficulty) is
\* entered with the inputs as they are now
GenerateRun ==
    /\ pc = "page"
    /\ page.isGenerating
    /\ width' = page.width
    /\ height' = page.height
    /\ difficulty' = page.difficulty
    /\ pc' = "generate"
    /\ UNCHANGED <<pageVars, resolveVars, twin, maze, stack, steps, solveVars,
                   codecVars>>

\* generate(), from the return of generateMaze: maze = ..., toggledWalls
\* cleared, solutionPath = solveMaze(..), isGenerating = false; then the
\* auto-save effect
GenerateDone ==
    /\ pc = "generated"
    /\ page.isGenerating
    /\ page' = [page EXCEPT !.maze = maze, !.toggledWalls = {},
                            !.solutionPath = solutionOf(maze),
                            !.isGenerating = FALSE]
    /\ stored' = autoSave(page', stored)
    /\ pc' = "page"
    /\ width' = 0
    /\ height' = 0
    /\ difficulty' = 0
    /\ maze' = NoMaze
    /\ stack' = <<>>
    /\ steps' = 0
    /\ UNCHANGED <<resolveVars, twin, solveVars, codecVars>>

\* loadFromLocalStorage() on a record: the state it leaves
loadedPage(rec) ==
    LET w == orDefault(rec.width, DEFAULT_MAZE_SIZE)
        h == orDefault(rec.height, DEFAULT_MAZE_SIZE)
        d == orDefault(rec.difficulty, DEFAULT_DIFFICULTY)
        m == deserializeMaze(rec.mazeData, w, h)
    IN  IF Len(rec.mazeData) > 0
        THEN [width |-> w, height |-> h, difficulty |-> d, maze |-> m,
              solutionPath |-> solutionOf(m),
              toggledWalls |-> rec.toggledWalls, isGenerating |-> FALSE]
        ELSE [width |-> w, height |-> h, difficulty |-> d, maze |-> NoMaze,
              solutionPath |-> <<>>,
              toggledWalls |-> rec.toggledWalls, isGenerating |-> FALSE]

\* the page is loaded again and a record is found: loadFromLocalStorage()
\* returns true; then the auto-save effect
ReloadWithRecord ==
    /\ pc = "page"
    /\ stored.present
    /\ page' = loadedPage(stored)
    /\ stored' = autoSave(page', stored)
    /\ UNCHANGED <<resolveVars, twin, pc, width, height, maze, genVars,
                   solveVars, codecVars>>

\* the page is loaded again, no record is found and the URL has no hash:
\* the component starts fresh
ReloadFresh ==
    /\ pc = "page"
    /\ ~stored.present
    /\ page' = FreshPage
    /\ page' # page
    /\ UNCHANGED <<stored, resolveVars, twin, pc, width, height, maze, genVars,
                   solveVars, codecVars>>

\* the page is loaded again, no record is found and the URL hash holds w, h
\* and d: loadFromURL() clamps them and generate() is called
ReloadFromURL ==
    /\ pc = "page"
    /\ ~stored.present
    /\ \E w \in PageSizes, h \in PageSizes, d \in 1..PageMaxDifficulty :
          page' = [FreshPage EXCEPT
                      !.width = clamp(MIN_MAZE_SIZE, MAX_MAZE_SIZE, w),
                      !.height = clamp(MIN_MAZE_SIZE, MAX_MAZE_SIZE, h),
                      !.difficulty = clamp(MIN_DIFFICULTY, MAX_DIFFICULTY, d),
                      !.isGenerating = TRUE]
    /\ UNCHANGED <<stored, resolveVars, twin, pc, width, height, maze, genVars,
                   solveVars, codecVars>>

NextPage ==
    \/ EditWidth
    \/ EditHeight
    \/ EditDifficulty
    \/ ToggleWall
    \/ ResetAndClear
    \/ ClickGenerate
    \/ GenerateRun
    \/ NextGenerate
    \/ GenerateDone
    \/ ReloadWithRecord
    \/ ReloadFresh
    \/ ReloadFromURL

SpecPage == InitPage /\ [][NextPage]_vars

\* the wall flags of every cell, row by row
WallsOf(m) ==
    [r \in 1..Len(m.cells) |-> [c \in 1..Len(m.cells[r]) |-> m.cells[r][c].walls]]

\* C26: persistence keeps dimensions and layout consistent: after any
\* sequence of UI events every record in localStorage has the width and
\* height of the maze whose serialization it stores, so that
\* loadFromLocalStorage reconstructs a maze whose wall flags equal those of
\* the maze that was saved.  (Violated: editing the width input after a
\* generation saves the new width with the old maze's serialization.)
C26_PersistenceConsistent ==
    stored.present =>
        /\ stored.mazeData = serializeMaze(page.maze)
        /\ stored.width = page.maze.width
        /\ stored.height = page.maze.height
        /\ WallsOf(loadedPage(stored).maze) = WallsOf(page.maze)

====
